---- MODULE Spec2Model ----
(***************************************************************************)
(* A model of the moonlander-gp genetic-programming engine: program trees  *)
(* (AstNode), the zipper traversal and tree reconstruction of ast.rs, the  *)
(* crossover and mutation operators, the height-biased generator, the      *)
(* population with its scoring fan-out, and the evolve loop.               *)
(*                                                                         *)
(* A tree node is a record [addr, tag, kids]: addr is the address of the   *)
(* node's heap allocation (what same_node compares), tag is what           *)
(* node_type() returns for it, kids are its boxed children in order.  A    *)
(* value without addresses, [tag, kids], is called a shape: two trees are  *)
(* structurally equal when their shapes are equal.                         *)
(***************************************************************************)
EXTENDS Integers, Sequences, FiniteSets, TLC

VARIABLES
    ast1, ast2, tres,               \* tree operations: the two input trees, the last result
    heapTop,                        \* the next unused heap address
    program, mlast,                 \* repeated mutation: the program, the last mutation
    pop,                            \* a Population: programs, generation, scores
    spc, slots, order, plast,       \* Population::score in progress; the last call on pop
    the_weights, ret, epc, elast,   \* evolve: its Weights, the new population, its position
    initial_n,                      \* the size of the first generation
    ca, cb, cres,                   \* two ScoreCards and the result of the last operation on them
    rres,                           \* the result of the last query on a scored population
    gres,                           \* the last call of a population generator
    nw,                             \* a target height and the NodeWeights made for it
    pk                              \* the last choice of operator: weights, draw, arm run

treeVars == <<ast1, ast2, tres, heapTop>>
mutVars == <<program, mlast>>
popVars == <<pop, spc, slots, order, plast>>
scoreVars == <<spc, slots, order, plast>>
evVars == <<the_weights, ret, epc, elast, initial_n>>
cardVars == <<ca, cb, cres>>
libVars == <<ca, cb, cres, rres, gres, nw, pk>>
vars == <<ast1, ast2, tres, heapTop, program, mlast, pop, spc, slots, order, plast,
          the_weights, ret, epc, elast, initial_n, ca, cb, cres, rres, gres, nw,
          pk>>

\* ------------------------------------------------------------------ bounds
\* The largest input tree of the tree operations.
MaxNodes == 3
\* The most draws one random generation may use (the deepest generated list),
\* and the deepest list the repeated mutation may build.
MaxDraws == 3
MaxListDepth == 13
\* The largest population given as an input, and the deepest program in one.
MaxPop == 2
MaxProgDepth == 2
\* The number of generations evolved one after the other.
MaxGenerations == 2
\* The most components of a ScoreCard.
MaxComponents == 2
\* The largest target height given to NodeWeights::fixed, and the deepest
\* level the weights are advanced to.
MaxTargetHeight == 103
\* The largest weight of an operator of evolve.
MaxWeight == 3

\* --------------------------------------------------------------- utilities
None == <<>>
Some(x) == <<x>>

Max2(a, b) == IF a >= b THEN a ELSE b

\* The element of a one-element set: {F(x) : x \in {e}} binds x to the value of
\* e, evaluated once.
Only(S) == CHOOSE x \in S : TRUE

RECURSIVE SumSeq(_)
SumSeq(s) == IF s = <<>> THEN 0 ELSE Head(s) + SumSeq(Tail(s))

RECURSIVE MaxSeq(_)
MaxSeq(s) == IF s = <<>> THEN 0 ELSE Max2(Head(s), MaxSeq(Tail(s)))

RECURSIVE FlattenSeq(_)
FlattenSeq(ss) == IF ss = <<>> THEN <<>> ELSE Head(ss) \o FlattenSeq(Tail(ss))

RECURSIVE SortedSeq(_)
SortedSeq(S) ==
    IF S = {} THEN <<>>
    ELSE LET m == CHOOSE x \in S : \A y \in S : x <= y
         IN <<m>> \o SortedSeq(S \ {m})

\* ------------------------------------------------------------ AstNode trait
\* The node kinds of the modelled grammar: node_type() of a node is its tag.
Tags == {0, 1}

node_type(n) == n.tag

children(n) == n.kids

RECURSIVE size(_)
size(n) == 1 + SumSeq([i \in 1..Len(n.kids) |-> size(n.kids[i])])

RECURSIVE depth(_)
depth(node) == 1 + MaxSeq([i \in 1..Len(children(node)) |-> depth(children(node)[i])])

RECURSIVE Strip(_)
Strip(n) == [tag |-> n.tag, kids |-> [i \in 1..Len(n.kids) |-> Strip(n.kids[i])]]

RECURSIVE Addrs(_)
Addrs(n) == {n.addr} \cup UNION {Addrs(n.kids[i]) : i \in 1..Len(n.kids)}

\* The number of nodes before child i of a node, counted from the node itself.
KidOffset(s, i) == 1 + SumSeq([j \in 1..(i - 1) |-> size(s.kids[j])])

\* A tree of shape s in fresh allocations base, base+1, ... (preorder).
RECURSIVE Alloc(_, _)
Alloc(s, base) ==
    [addr |-> base, tag |-> s.tag,
     kids |-> [i \in 1..Len(s.kids) |-> Alloc(s.kids[i], base + KidOffset(s, i))]]

\* #[derive(Clone)] and Box::new: a deep copy, every node in a new allocation.
Clone(n, base) == Alloc(Strip(n), base)

\* Copyable::copy
copy(n, base) == Clone(n, base)

\* The shapes with exactly k nodes, each node with at most two children.
RECURSIVE ShapesOfSize(_)
ShapesOfSize(k) ==
    IF k = 1 THEN {[tag |-> g, kids |-> <<>>] : g \in Tags}
    ELSE {[tag |-> g, kids |-> <<s>>] : g \in Tags, s \in ShapesOfSize(k - 1)}
         \cup UNION {{[tag |-> g, kids |-> <<a, b>>] :
                          g \in Tags, a \in ShapesOfSize(j), b \in ShapesOfSize(k - 1 - j)}
                      : j \in 1..(k - 2)}

TreeShapes == UNION {ShapesOfSize(k) : k \in 1..MaxNodes}

\* -------------------------------------------------------- zipper traversal
\* NodeInTree: node is the (addressed) subtree, root_path the parent's record.
NodeInTree(node, root_path) == [node |-> node, root_path |-> root_path]

\* Mutant: the records below a child are linked to the child's parent.
RECURSIVE find_into_flat(_, _, _)
find_into_flat(parent, parent_root_path, i) ==
    IF i > Len(children(parent)) THEN <<>>
    ELSE LET node == children(parent)[i]
             current_root_path == NodeInTree(node, Some(parent_root_path))
         IN <<current_root_path>>
            \o find_into_flat(node, parent_root_path, 1)
            \o find_into_flat(parent, parent_root_path, i + 1)

RECURSIVE find_nodes_and_parents_into(_, _, _)
find_nodes_and_parents_into(parent, parent_root_path, i) ==
    IF i > Len(children(parent)) THEN <<>>
    ELSE LET node == children(parent)[i]
             current_root_path == NodeInTree(node, Some(parent_root_path))
         IN <<current_root_path>>
            \o find_nodes_and_parents_into(node, current_root_path, 1)
            \o find_nodes_and_parents_into(parent, parent_root_path, i + 1)

find_nodes_and_parents(root) ==
    LET current_root_path == NodeInTree(root, None)
    IN <<current_root_path>> \o find_nodes_and_parents_into(root, current_root_path, 1)

\* ------------------------------------------------------------- replacement
\* Mutant: nodes compared by value.
same_node_by_value(node1, node2) == Strip(node1) = Strip(node2)

same_node(node1, node2) == node1.addr = node2.addr

\* A step result: the value built, what is left of the replacement Option,
\* the next unused address, and whether an unwrap() panicked.
Res(val, opt, next, ok) == [val |-> val, opt |-> opt, next |-> next, ok |-> ok]

\* Mutant: a child that is not replaced is shared, not cloned.
clone_or_replace_shared(child, old_child, new_child, next) ==
    IF same_node(child, old_child)
    THEN IF new_child = None
         THEN Res(None, None, next, FALSE)
         ELSE Res(Some(new_child[1]), None, next, TRUE)
    ELSE Res(Some(child), new_child, next, TRUE)

clone_or_replace(child, old_child, new_child, next) ==
    IF same_node(child, old_child)
    THEN IF new_child = None
         THEN Res(None, None, next, FALSE)
         ELSE Res(Some(new_child[1]), None, next, TRUE)
    ELSE Res(Some(Clone(child, next)), new_child, next + size(child), TRUE)

\* The fields of the rebuilt node, left to right.
RECURSIVE replace_fields(_, _, _, _, _)
replace_fields(self, i, old_child, new_child, next) ==
    IF i > Len(self.kids) THEN Res(<<>>, new_child, next, TRUE)
    ELSE Only({
           IF ~r.ok THEN Res(<<>>, None, next, FALSE)
           ELSE Only({Res(r.val \o rest.val, rest.opt, rest.next, rest.ok) :
                         rest \in {replace_fields(self, i + 1, old_child, r.opt, r.next)}})
           : r \in {clone_or_replace(self.kids[i], old_child, new_child, next)}})

replace_child(self, old_child, new_child, next) ==
    Only({
       IF ~f.ok THEN Res(None, None, next, FALSE)
       ELSE Res(Some([addr |-> f.next, tag |-> self.tag, kids |-> f.val]),
                f.opt, f.next + 1, TRUE)
       : f \in {replace_fields(self, 1, old_child, new_child, next)}})

RECURSIVE do_replace_to_root(_, _, _)
do_replace_to_root(nap, new_child, next) ==
    IF nap.root_path = None
    THEN IF new_child = None
         THEN Res(None, None, next, FALSE)
         ELSE Res(Some(new_child[1]), None, next, TRUE)
    ELSE Only({
           IF ~new_node.ok THEN Res(None, None, next, FALSE)
           ELSE do_replace_to_root(nap.root_path[1], new_node.val, new_node.next)
           : new_node \in {replace_child(nap.root_path[1].node, nap.node, new_child, next)}})

replace_to_root(nap, new_child, next) ==
    do_replace_to_root(nap, Some(new_child), next)

\* --------------------------------------------------------------- crossover
\* Rng::choose: None on an empty slice, else the element at the drawn index.
choose(values, r) ==
    IF values = <<>> THEN None ELSE Some(values[(r % Len(values)) + 1])

\* BTreeMap from node_type to the records of that type, in traversal order.
RECURSIVE of_type(_, _)
of_type(naps, typ) ==
    IF naps = <<>> THEN <<>>
    ELSE (IF node_type(Head(naps).node) = typ THEN <<Head(naps)>> ELSE <<>>)
         \o of_type(Tail(naps), typ)

group_by_type(naps) ==
    [typ \in {node_type(naps[k].node) : k \in 1..Len(naps)} |-> of_type(naps, typ)]

\* The keys of nodes1 that nodes2 has too, in the map's (ascending) order.
shared_types(nodes1, nodes2) ==
    SortedSeq({typ \in DOMAIN nodes1 : typ \in DOMAIN nodes2})

\* The outcome of crossover_tree: ok is FALSE when an unwrap() panicked, a and
\* b are the picked nodes, child1 and child2 the offspring.
CrossRes(ok, a, b, child1, child2, next) ==
    [ok |-> ok, a |-> a, b |-> b, child1 |-> child1, child2 |-> child2, next |-> next]

\* Mutant: the second offspring gets back a copy of its own subtree.
swap_subtrees_one_way(nap1, nap2, next) ==
    Only({Only({Only({Only({
        IF child1.ok /\ child2.ok
        THEN CrossRes(TRUE, Some(nap1.node), Some(nap2.node),
                      child1.val, child2.val, child2.next)
        ELSE CrossRes(FALSE, None, None, None, None, next)
        : child2 \in {replace_to_root(nap2, copy1, child1.next + size(copy1))}})
        : copy1 \in {copy(nap2.node, child1.next)}})
        : child1 \in {replace_to_root(nap1, copy2, next + size(copy2))}})
        : copy2 \in {copy(nap2.node, next)}})

\* The two replace_to_root calls of crossover_tree, for the picked records.
swap_subtrees(nap1, nap2, next) ==
    Only({Only({Only({Only({
        IF child1.ok /\ child2.ok
        THEN CrossRes(TRUE, Some(nap1.node), Some(nap2.node),
                      child1.val, child2.val, child2.next)
        ELSE CrossRes(FALSE, None, None, None, None, next)
        : child2 \in {replace_to_root(nap2, copy1, child1.next + size(copy1))}})
        : copy1 \in {copy(nap1.node, child1.next)}})
        : child1 \in {replace_to_root(nap1, copy2, next + size(copy2))}})
        : copy2 \in {copy(nap2.node, next)}})

\* Mutant: without a shared tag the parents are returned as copies.
crossover_tree_fallback(t1, t2, rt, r1, r2, next) ==
    LET nodes1 == group_by_type(find_nodes_and_parents(t1))
        nodes2 == group_by_type(find_nodes_and_parents(t2))
        shared_node_types == shared_types(nodes1, nodes2)
        typ == choose(shared_node_types, rt)
    IN IF typ = None
       THEN CrossRes(TRUE, Some(t1), Some(t2), Some(Clone(t1, next)),
                     Some(Clone(t2, next + size(t1))), next + size(t1) + size(t2))
       ELSE swap_subtrees(choose(nodes1[typ[1]], r1)[1],
                          choose(nodes2[typ[1]], r2)[1], next)

crossover_tree(t1, t2, rt, r1, r2, next) ==
    LET nodes1 == group_by_type(find_nodes_and_parents(t1))
        nodes2 == group_by_type(find_nodes_and_parents(t2))
        shared_node_types == shared_types(nodes1, nodes2)
        typ == choose(shared_node_types, rt)
    IN IF typ = None
       THEN CrossRes(FALSE, None, None, None, None, next)
       ELSE swap_subtrees(choose(nodes1[typ[1]], r1)[1],
                          choose(nodes2[typ[1]], r2)[1], next)

\* ----------------------------------------------------- weighted choice, pick!
\* The else-if chain of pick!: the index of the first expression whose band
\* [bound, bound + weight) holds random_number, 0 when the chain falls through
\* to panic!().  The bound is advanced only where the chain evaluates the
\* second comparison.
\* Mutant: every band starts at 0.
RECURSIVE pick_chain_from_zero(_, _, _, _)
pick_chain_from_zero(random_number, weights, i, bound) ==
    IF i > Len(weights) THEN 0
    ELSE IF random_number < weights[i] THEN i
    ELSE pick_chain_from_zero(random_number, weights, i + 1, bound)

RECURSIVE pick_chain(_, _, _, _)
pick_chain(random_number, weights, i, bound) ==
    IF i > Len(weights) THEN 0
    ELSE IF bound <= random_number /\ random_number < bound + weights[i] THEN i
    ELSE pick_chain(random_number, weights, i + 1,
                    IF bound <= random_number THEN bound + weights[i] ELSE bound)

\* pick![rng, w1, e1, w2, e2, ...] for the draw next_u32 of the generator:
\* the index of the expression it runs, 0 for a panic (also the remainder by
\* a total of zero).
pick(next_u32, weights) ==
    LET total == SumSeq(weights)
    IN IF total = 0 THEN 0 ELSE pick_chain(next_u32 % total, weights, 1, 0)

\* ------------------------------------------------ height-biased generation
MIN_WEIGHT == 1

NodeWeights(current_level, per_level) ==
    [current_level |-> current_level, per_level |-> per_level]

fixed(target_height) == NodeWeights(0, 100 \div Max2(target_height - 1, 1))

\* Mutant: the internal weight without its floor.
internal_unfloored(w) == 100 - w.per_level * w.current_level

internal(w) == Max2(100 - w.per_level * w.current_level, MIN_WEIGHT)

leaf(w) == Max2(w.per_level * w.current_level, MIN_WEIGHT)

next_level(w) == NodeWeights(w.current_level + 1, w.per_level)

\* The List grammar of the generator's tests: Cons(next) | Nil, type id 0.
Nil == [tag |-> 0, kids |-> <<>>]
Cons(next) == [tag |-> 0, kids |-> <<next>>]

\* RandNode::rand for List, with the generator's successive draws: the shape
\* generated, None when the draws run out before a Nil is drawn or when draws
\* are left over.
RECURSIVE rand_List(_, _)
rand_List(weights, draws) ==
    IF draws = <<>> THEN None
    ELSE Only({
           IF band = 1
           THEN Only({IF next = None THEN None ELSE Some(Cons(next[1])) :
                         next \in {rand_List(next_level(weights), Tail(draws))}})
           ELSE IF band = 2 /\ Len(draws) = 1 THEN Some(Nil)
           ELSE None
           : band \in {pick(Head(draws), <<internal(weights), leaf(weights)>>)}})

\* Mutatable::mutate of a RandNode type: a fresh random subtree.
mutate(self, max_height, draws) == rand_List(fixed(max_height), draws)

\* ---------------------------------------------------------------- mutation
\* genetic::mutate::depth: the number of records from nap to the root's.
RECURSIVE mutate_depth_from_zero(_)
mutate_depth_from_zero(nap) ==
    IF nap.root_path = None THEN 0 ELSE 1 + mutate_depth_from_zero(nap.root_path[1])

\* Mutant: the parent record is not counted.
mutate_depth_flat(nap) == 1

RECURSIVE mutate_depth(_)
mutate_depth(nap) ==
    1 + (IF nap.root_path = None THEN 0 ELSE mutate_depth(nap.root_path[1]))

\* The outcome of mutate_tree: the tree, the depth of the picked record, the
\* height asked of the replacement, the replacement itself.
MutRes(ok, tree, picked_depth, height_diff, mutated, next) ==
    [ok |-> ok, tree |-> tree, picked_depth |-> picked_depth,
     height_diff |-> height_diff, mutated |-> mutated, next |-> next]

mutate_tree(ast, target_height, r, draws, next) ==
    LET naps == find_nodes_and_parents(ast)
        picked == choose(naps, r)[1]
        height_diff == target_height - mutate_depth(picked)
    IN Only({
         IF shape = None
         THEN MutRes(FALSE, None, mutate_depth(picked), height_diff, None, next)
         ELSE Only({Only({
                MutRes(t.ok, t.val, mutate_depth(picked), height_diff, Some(mutated), t.next)
                : t \in {replace_to_root(picked, mutated, next + size(mutated))}})
                : mutated \in {Alloc(shape[1], next)}})
         : shape \in {mutate(picked.node, height_diff, draws)}})

\* ------------------------------------------------------------ Number (f32)
\* A Number is a real value, written as an integer, or the not-a-number
\* value, which stands apart from every real value of the model.
NaN == -1000

is_nan(x) == x = NaN

\* x + y of f32: not-a-number as soon as one side is.
f32_add(x, y) == IF is_nan(x) \/ is_nan(y) THEN NaN ELSE x + y

\* x.partial_cmp(&y) of f32: no Ordering when one side is not a number.
f32_partial_cmp(x, y) ==
    IF is_nan(x) \/ is_nan(y) THEN None
    ELSE IF x < y THEN Some("Less")
    ELSE IF x = y THEN Some("Equal")
    ELSE Some("Greater")

\* x == y and x > y of f32: false when one side is not a number.
f32_eq(x, y) == f32_partial_cmp(x, y) = Some("Equal")

f32_gt(x, y) == f32_partial_cmp(x, y) = Some("Greater")

\* The Number 1.0: the real values of the model are counted in twelfths, so
\* that the mean of up to four whole numbers is a value of the model.
One == 12

\* x / (k as Number) of f32, for a count k; 0.0 / 0.0 is not a number, and
\* nothing else is divided by zero here.
f32_div(x, k) == IF is_nan(x) \/ k = 0 THEN NaN ELSE x \div k

RECURSIVE fold_add(_, _, _)
fold_add(acc, xs, i) ==
    IF i > Len(xs) THEN acc ELSE fold_add(f32_add(acc, xs[i]), xs, i + 1)

\* num::sum, and the fold(0.0, Add::add) of ScoreCard::new.
sum(xs) == fold_add(0, xs, 1)

\* --------------------------------------------------------------- ScoreCard
\* ScoreCard::new: the named scores and their sum.
ScoreCard_new(scores) ==
    [scores |-> scores, total |-> sum([k \in 1..Len(scores) |-> scores[k][2]])]

\* PartialEq and PartialOrd of ScoreCard: those of the totals.
ScoreCard_eq(self, other) == f32_eq(self.total, other.total)

ScoreCard_partial_cmp(self, other) == f32_partial_cmp(self.total, other.total)

\* Mutant: totals that f32 cannot order are taken to be equal.
ScoreCard_cmp_unordered_equal(self, other) ==
    IF f32_partial_cmp(self.total, other.total) = None THEN "Equal"
    ELSE f32_partial_cmp(self.total, other.total)[1]

\* Ord of ScoreCard.
ScoreCard_cmp(self, other) ==
    IF is_nan(self.total) /\ is_nan(other.total) THEN "Equal"
    ELSE IF is_nan(self.total) THEN "Less"
    ELSE IF is_nan(other.total) THEN "Greater"
    ELSE f32_partial_cmp(self.total, other.total)[1]

\* find_rec: the position of the first score of that name, 0 for None.
find_rec(scores, name) ==
    IF \E k \in 1..Len(scores) : scores[k][1] = name
    THEN CHOOSE k \in 1..Len(scores) :
            /\ scores[k][1] = name
            /\ \A j \in 1..(k - 1) : scores[j][1] # name
    ELSE 0

\* One turn of the loop of add_assign, for the score (name, value) of rhs.
add_assign_step(self, score) ==
    [scores |-> IF find_rec(self.scores, score[1]) # 0
                THEN [self.scores EXCEPT ![find_rec(self.scores, score[1])] =
                         <<@[1], f32_add(@[2], score[2])>>]
                ELSE Append(self.scores, score),
     total |-> f32_add(self.total, score[2])]

RECURSIVE add_assign(_, _, _)
add_assign(self, rhs, i) ==
    IF i > Len(rhs.scores) THEN self
    ELSE add_assign(add_assign_step(self, rhs.scores[i]), rhs, i + 1)

\* Mutant: the scores of rhs are appended, as ScoreCard::add(scores) does.
ScoreCard_add_extend(self, rhs) == ScoreCard_new(self.scores \o rhs.scores)

\* self + rhs
ScoreCard_add(self, rhs) == add_assign(self, rhs, 1)

\* -------------------------------------------------------------- population

SimpleFitness_new(scores) == [score_card |-> ScoreCard_new(scores)]

\* A scoring callback in the manner of score_ant: a measure of the program
\* and a component drawn from the evaluation's own generator.
scoring_fn(p, thread_rng) ==
    SimpleFitness_new(<< <<"size", size(p)>>, <<"noise", thread_rng>> >>)

Noise == {0, 1}

Population_new(capacity, generation) ==
    [population |-> <<>>, generation |-> generation, scores |-> <<>>]

pop_add(self, p) == [self EXCEPT !.population = Append(@, p)]

pop_n(self) == Len(self.population)

\* Mutant: the results are placed in the order the evaluations completed.
collect_in_completion_order(target, results, completed) ==
    target \o [k \in 1..Len(completed) |-> results[completed[k]][1]]

\* collect_into: the results written to the slots of their indexes, after the
\* (already truncated) target.
collect_into(target, results, completed) ==
    target \o [i \in 1..Len(results) |-> results[i][1]]

\* The programs of an input population: the lists up to MaxProgDepth deep.
RECURSIVE ListOfDepth(_)
ListOfDepth(d) == IF d <= 1 THEN Nil ELSE Cons(ListOfDepth(d - 1))

Programs == {ListOfDepth(d) : d \in 1..MaxProgDepth}

ScoreIdle == spc = "idle" /\ slots = <<>> /\ order = <<>> /\ plast = None

PopIdle == pop = Population_new(0, 0) /\ ScoreIdle

\* --------------------------------------------------------------- evolution
Weights(reproduce, mutate_, crossover, tree_height) ==
    [reproduce |-> reproduce, mutate |-> mutate_, crossover |-> crossover,
     tree_height |-> tree_height]

\* The remainder of i32: its sign is the sign of the dividend.
i32_rem(a, b) ==
    LET abs_b == IF b < 0 THEN 0 - b ELSE b
    IN IF a < 0 THEN 0 - ((0 - a) % abs_b) ELSE a % abs_b

\* Mutant: the loop runs until the new population is larger than the old.
evolve_loop_cond_le(ret_, pop_) == pop_n(ret_) <= pop_n(pop_)

\* while ret.n() < pop.n()
evolve_loop_cond(ret_, pop_) == pop_n(ret_) < pop_n(pop_)

\* pick![rng, weights.reproduce, .., weights.mutate, .., weights.crossover, ..]
evolve_pick(next_u32, w) == pick(next_u32, <<w.reproduce, w.mutate, w.crossover>>)

\* Where the k-th program of a population lives.
member_addr(self, k) ==
    1 + SumSeq([j \in 1..(k - 1) |-> size(self.population[j])])

member(self, k) == Alloc(self.population[k], member_addr(self, k))

population_end(self) == member_addr(self, pop_n(self) + 1)

EvIdle ==
    /\ the_weights = None /\ ret = Population_new(0, 0)
    /\ epc = "idle" /\ elast = "none" /\ initial_n = 0

\* ------------------------------------------- queries on a scored population
RECURSIVE partial_max_fold(_, _, _)
partial_max_fold(r, xs, i) ==
    IF i > Len(xs) THEN r
    ELSE partial_max_fold(IF r = None THEN Some(xs[i])
                          ELSE IF f32_gt(xs[i], r[1]) THEN Some(xs[i])
                          ELSE r,
                          xs, i + 1)

\* num::partial_max: None for no items.
partial_max(xs) == partial_max_fold(None, xs, 1)

\* The totals of the scores, in order.
totals(self) == [i \in 1..Len(self.scores) |-> self.scores[i].score_card.total]

score_cards(self) == [i \in 1..Len(self.scores) |-> self.scores[i].score_card]

\* Population::avg_score
avg_score(self) == f32_div(sum(totals(self)), pop_n(self))

\* Population::best_score: None for the panic of unwrap.
best_score(self) == partial_max(totals(self))

\* a <= b on ScoreCards: PartialOrd::le, from partial_cmp.
ScoreCard_le(a, b) == ScoreCard_partial_cmp(a, b) \in {Some("Less"), Some("Equal")}

\* Iterator::max_by_key moves on to a later item when that is not below the
\* one it holds.  The standard library decides this with <= on the keys in
\* its older releases and with Ord::cmp in its newer ones; the two agree on
\* keys whose PartialOrd and Ord agree.
StdOrders == {"le", "cmp"}

moves_on(held, later, std) ==
    IF std = "le" THEN ScoreCard_le(held, later)
    ELSE ScoreCard_cmp(held, later) # "Greater"

RECURSIVE select_fold(_, _, _, _)
select_fold(sel, i, keys, std) ==
    IF i > Len(keys) THEN sel
    ELSE select_fold(IF moves_on(keys[sel], keys[i], std) THEN i ELSE sel,
                     i + 1, keys, std)

\* The position of the item max_by_key returns, None for no items.
max_by_key(keys, std) ==
    IF keys = <<>> THEN None ELSE Some(select_fold(1, 2, keys, std))

\* Population::champion: the index of the winner, None for the panic.
champion(self, std) == max_by_key(score_cards(self), std)

\* sort_by_key: a stable sort by Ord::cmp of the keys.
RECURSIVE insert_sorted(_, _, _)
insert_sorted(sorted, x, keys) ==
    IF sorted = <<>> THEN <<x>>
    ELSE IF ScoreCard_cmp(keys[sorted[Len(sorted)]], keys[x]) # "Greater"
         THEN Append(sorted, x)
         ELSE Append(insert_sorted(SubSeq(sorted, 1, Len(sorted) - 1), x, keys),
                     sorted[Len(sorted)])

RECURSIVE sort_fold(_, _, _)
sort_fold(sorted, i, keys) ==
    IF i > Len(keys) THEN sorted
    ELSE sort_fold(insert_sorted(sorted, i, keys), i + 1, keys)

sort_by_key(keys) == sort_fold(<<>>, 1, keys)

\* Population::best_n: the indexes of the programs it clones, in its order;
\* None for the panic of indexes.len() - n below zero.
best_n(self, n) ==
    IF n > pop_n(self) THEN None
    ELSE Some(SubSeq(sort_by_key(score_cards(self)), pop_n(self) - n + 1, pop_n(self)))

\* Mutant: a tournament larger than the population is refused.
tournament_selection_strict(tournament_size, self, draws, std) ==
    IF pop_n(self) = 0 \/ tournament_size = 0 \/ tournament_size > pop_n(self) THEN None
    ELSE LET candidate_indexes ==
                 [j \in 1..tournament_size |-> (draws[j] % pop_n(self)) + 1]
             keys == [j \in 1..tournament_size |->
                         self.scores[candidate_indexes[j]].score_card]
         IN Some([candidates |-> candidate_indexes,
                  winner_i |-> candidate_indexes[max_by_key(keys, std)[1]]])

\* tournament_selection for the values drawn of rng.next_u64() as usize: the
\* candidate indexes and the index of the winner; None for a panic (the
\* remainder by a count of zero, the unwrap of no candidate).
tournament_selection(tournament_size, self, draws, std) ==
    IF pop_n(self) = 0 \/ tournament_size = 0 THEN None
    ELSE LET candidate_indexes ==
                 [j \in 1..tournament_size |-> (draws[j] % pop_n(self)) + 1]
             keys == [j \in 1..tournament_size |->
                         self.scores[candidate_indexes[j]].score_card]
         IN Some([candidates |-> candidate_indexes,
                  winner_i |-> candidate_indexes[max_by_key(keys, std)[1]]])

\* ------------------------------------------------------ random populations
\* The heights of the loop `for i in 0..count { 1 + i / (count / max_depth) }`
\* of random_population and retain_best; None for the panic of a division by
\* zero (count / max_depth is zero, or max_depth is).
fill_heights(count, max_depth) ==
    IF count = 0 THEN Some(<<>>)
    ELSE IF max_depth = 0 THEN None
    ELSE IF count \div max_depth = 0 THEN None
    ELSE Some([i \in 1..count |-> 1 + (i - 1) \div (count \div max_depth)])

\* (pop.n() as Number * frac) as usize
retained(count, frac) == (count * frac) \div One

\* What the variables of the score cards, the queries and the generators
\* hold while they are not in use.
CardIdle == ca = None /\ cb = None /\ cres = None

LibIdle == CardIdle /\ rres = None /\ gres = None /\ nw = None /\ pk = None

\* ===================================================== tree operations spec
\* The result of the last tree operation.  x and y are the nodes the operation
\* was about (the replaced node and the replacement, or the two picked nodes),
\* out the trees it returned, left what remains of the replacement Option.
TRes(op, ok, x, y, out, left, naps) ==
    [op |-> op, ok |-> ok, x |-> x, y |-> y, out |-> out, left |-> left, naps |-> naps]

TreeIdle == TRes("none", TRUE, None, None, <<>>, None, <<>>)

TreeUnused == ast1 = None /\ ast2 = None /\ tres = TreeIdle /\ heapTop = 0

MutIdle == program = None /\ mlast = None

\* Two input trees: distinct objects, or the same tree passed twice.
InitTree ==
    /\ \E s1 \in TreeShapes, s2 \in TreeShapes, alias \in BOOLEAN :
          /\ ast1 = Alloc(s1, 1)
          /\ ast2 = IF alias THEN Alloc(s1, 1) ELSE Alloc(s2, 1 + size(s1))
          /\ heapTop = 1 + size(s1) + (IF alias THEN 0 ELSE size(s2))
    /\ tres = TreeIdle
    /\ MutIdle
    /\ PopIdle
    /\ EvIdle
    /\ LibIdle

Draws == 0..(MaxNodes - 1)

Crossover ==
    /\ tres.op = "none"
    /\ \E rt \in Draws, r1 \in Draws, r2 \in Draws :
          \E c \in {crossover_tree(ast1, ast2, rt, r1, r2, heapTop)} :
             /\ tres' = TRes("crossover", c.ok, c.a, c.b, c.child1 \o c.child2, None, <<>>)
             /\ heapTop' = c.next
    /\ UNCHANGED <<ast1, ast2>>
    /\ UNCHANGED <<mutVars, popVars, evVars, libVars>>

\* replace_to_root of a record of ast1 by a new value (a copy of ast2).
ReplaceToRoot ==
    /\ tres.op = "none"
    /\ \E r \in Draws :
          \E nap \in {choose(find_nodes_and_parents(ast1), r)[1]}, y \in {copy(ast2, heapTop)} :
          \E c \in {replace_to_root(nap, y, heapTop + size(y))} :
             /\ tres' = TRes("replace_to_root", c.ok, Some(nap.node), Some(y), c.val, c.opt, <<>>)
             /\ heapTop' = c.next
    /\ UNCHANGED <<ast1, ast2>>
    /\ UNCHANGED <<mutVars, popVars, evVars, libVars>>

\* replace_child on the root of ast1: old is one of its children, or the node
\* itself (not a child: nothing to replace).
ReplaceChild ==
    /\ tres.op = "none"
    /\ \E k \in 0..Len(children(ast1)) :
          \E old \in {IF k = 0 THEN ast1 ELSE children(ast1)[k]}, y \in {copy(ast2, heapTop)} :
          \E c \in {replace_child(ast1, old, Some(y), heapTop + size(y))} :
             /\ tres' = TRes("replace_child", c.ok, Some(old), Some(y), c.val, c.opt, <<>>)
             /\ heapTop' = c.next
    /\ UNCHANGED <<ast1, ast2>>
    /\ UNCHANGED <<mutVars, popVars, evVars, libVars>>

Find ==
    /\ tres.op = "none"
    /\ tres' = TRes("find", TRUE, None, None, <<>>, None, find_nodes_and_parents(ast1))
    /\ UNCHANGED <<ast1, ast2, heapTop>>
    /\ UNCHANGED <<mutVars, popVars, evVars, libVars>>

NextTree == Crossover \/ ReplaceToRoot \/ ReplaceChild \/ Find

SpecTree == InitTree /\ [][NextTree]_vars

\* ------------------------------------------- positions, for the statements
\* The path (child indexes from the root) of the node at address a, if any.
RECURSIVE PathTo(_, _)
PathTo(t, a) ==
    IF t.addr = a THEN Some(<<>>)
    ELSE LET hits == {i \in 1..Len(t.kids) : PathTo(t.kids[i], a) # None}
         IN IF hits = {} THEN None
            ELSE Only({Some(<<i>> \o PathTo(t.kids[i], a)[1]) : i \in {CHOOSE i \in hits : TRUE}})

RECURSIVE NodeAt(_, _)
NodeAt(t, path) == IF path = <<>> THEN t ELSE NodeAt(t.kids[Head(path)], Tail(path))

Prefix(path, m) == SubSeq(path, 1, m)

\* The positions of the subtrees hanging off the path: the siblings of the
\* nodes on it.
OffPath(t, path) ==
    UNION {{Prefix(path, m) \o <<i>> :
               i \in (1..Len(NodeAt(t, Prefix(path, m)).kids)) \ {path[m + 1]}}
           : m \in 0..(Len(path) - 1)}

\* The shape of t with the subtree at address a replaced by shape s.
RECURSIVE Subst(_, _, _)
Subst(t, a, s) ==
    IF t.addr = a THEN s
    ELSE [tag |-> t.tag, kids |-> [i \in 1..Len(t.kids) |-> Subst(t.kids[i], a, s)]]

RECURSIVE TagsOf(_)
TagsOf(t) == {t.tag} \cup UNION {TagsOf(t.kids[i]) : i \in 1..Len(t.kids)}

\* ------------------------------------------------------------ C5 crossover
\* C5: crossover_tree(A, B) picks a node a of A and a node b of B with the same
\* kind tag; the first offspring is A with the subtree at a replaced by a copy
\* of the subtree at b, the second is B with the subtree at b replaced by a
\* copy of the subtree at a, every other node unchanged; with A and B
\* structurally equal and both picks at the root, both offspring equal A.
Thm_C5_CrossoverSwaps ==
    (tres.op = "crossover" /\ tres.ok) =>
        LET a == tres.x[1]
            b == tres.y[1]
        IN /\ Len(tres.out) = 2
           /\ PathTo(ast1, a.addr) # None /\ NodeAt(ast1, PathTo(ast1, a.addr)[1]) = a
           /\ PathTo(ast2, b.addr) # None /\ NodeAt(ast2, PathTo(ast2, b.addr)[1]) = b
           /\ node_type(a) = node_type(b)
           /\ Strip(tres.out[1]) = Subst(ast1, a.addr, Strip(b))
           /\ Strip(tres.out[2]) = Subst(ast2, b.addr, Strip(a))
           /\ (Strip(ast1) = Strip(ast2) /\ a.addr = ast1.addr /\ b.addr = ast2.addr)
                 => (Strip(tres.out[1]) = Strip(ast1) /\ Strip(tres.out[2]) = Strip(ast1))

\* A crossover that swapped two different subtrees below the root of A.
Wit_C5_RealSwap ==
    /\ tres.op = "crossover" /\ tres.ok
    /\ tres.x[1].addr # ast1.addr
    /\ Strip(tres.x[1]) # Strip(tres.y[1])
    /\ Strip(tres.out[1]) # Strip(ast1)

RECURSIVE ChainRoot(_)
ChainRoot(nap) == IF nap.root_path = None THEN nap ELSE ChainRoot(nap.root_path[1])

\* C9: find_nodes_and_parents(root) returns one record per node of the tree,
\* each node once, the root included; the root's record has no parent link and
\* every other record's link is the record of the node's immediate parent, so
\* the links lead from any record to the root's.
Thm_C9_FindCoversTree ==
    (tres.op = "find") =>
        LET naps == tres.naps
        IN /\ Len(naps) = size(ast1)
           /\ {naps[k].node.addr : k \in 1..Len(naps)} = Addrs(ast1)
           /\ \A k \in 1..Len(naps) :
                 /\ NodeAt(ast1, PathTo(ast1, naps[k].node.addr)[1]) = naps[k].node
                 /\ (naps[k].root_path = None) <=> (naps[k].node.addr = ast1.addr)
                 /\ naps[k].root_path # None =>
                       /\ \E j \in 1..Len(naps) : naps[j] = naps[k].root_path[1]
                       /\ \E i \in 1..Len(naps[k].root_path[1].node.kids) :
                             naps[k].root_path[1].node.kids[i].addr = naps[k].node.addr
                 /\ ChainRoot(naps[k]) = naps[1]

\* A traversal of a tree with a grandchild of the root.
Wit_C9_Grandchild ==
    /\ tres.op = "find"
    /\ \E k \in 1..Len(tres.naps) :
          /\ tres.naps[k].root_path # None
          /\ tres.naps[k].root_path[1].root_path # None

\* =================================================== repeated mutation spec
\* test_node_heights_during_mutation: a List generated for target height 8,
\* then mutated again and again with the same target height.
TargetHeight == 8

\* Values of rng.next_u32(): 0 lands in the first band at every level; 99 and
\* 100 land in the second band wherever the first is narrower than that.
RawDraws == {0, 99, 100}

DrawSeqs == UNION {[1..n -> RawDraws] : n \in 1..MaxDraws}

\* What the last mutation did: the depth before it, the depth of the picked
\* record, the height asked of the replacement, the replacement's depth.
MLast(before, picked_depth, height_diff, gen_depth) ==
    [before |-> before, picked_depth |-> picked_depth,
     height_diff |-> height_diff, gen_depth |-> gen_depth]

InitMut ==
    /\ \E draws \in DrawSeqs :
          \E shape \in {rand_List(fixed(TargetHeight), draws)} :
             /\ shape # None
             /\ program = Some(Alloc(shape[1], 1))
    /\ mlast = None
    /\ TreeUnused
    /\ PopIdle
    /\ EvIdle
    /\ LibIdle

\* program = *mutate_tree(&program, target_height, &mut rng): the new tree
\* takes the place of the old one.
Mutate ==
    /\ \E r \in 0..(MaxListDepth - 1), draws \in DrawSeqs :
          \E m \in {mutate_tree(program[1], TargetHeight, r, draws,
                                1 + size(program[1]))} :
             /\ m.ok
             /\ depth(m.tree[1]) <= MaxListDepth
             /\ program' = Some(Clone(m.tree[1], 1))
             /\ mlast' = Some(MLast(depth(program[1]), m.picked_depth,
                                    m.height_diff, depth(m.mutated[1])))
    /\ UNCHANGED <<treeVars, popVars, evVars, libVars>>

NextMut == Mutate

SpecMut == InitMut /\ [][NextMut]_vars

Ancestors == depth(program[1]) - mlast[1].gen_depth

\* In a List every record's node and the records from it to the root's make up
\* the whole list: depth(record) counts the record itself.
RecordDepths ==
    \A k \in DOMAIN find_nodes_and_parents(program[1]) :
       LET nap == find_nodes_and_parents(program[1])[k]
       IN /\ mutate_depth(nap) = depth(program[1]) - depth(nap.node) + 1
          /\ nap.root_path = None => mutate_depth(nap) = 1
          /\ nap.root_path # None =>
                mutate_depth(nap) = 1 + mutate_depth(nap.root_path[1])

\* C20 as stated: the depth of the picked record is 0 at the root and 1 + the
\* parent's otherwise (the number of records above it), and mutate_tree asks
\* for target height minus that depth, the full target height at the root.
Orig_C20_RootDepthZero ==
    mlast # None =>
        /\ mlast[1].picked_depth = Ancestors
        /\ mlast[1].height_diff = TargetHeight - Ancestors

\* C20 amended: the depth of a record is 1 for the root's record and 1 + the
\* depth of the parent record otherwise, and mutate_tree asks the picked node
\* for a replacement of height target height minus that depth, so a pick at
\* the root gets the target height minus 1.
Thm_C20_RootDepthOne ==
    /\ RecordDepths
    /\ mlast # None =>
          /\ mlast[1].picked_depth = 1 + Ancestors
          /\ mlast[1].height_diff = TargetHeight - (1 + Ancestors)

\* A mutation of a list at least two deep that picked the root's record and
\* asked for the target height minus 1.
Wit_C20_RootPickAsksOneLess ==
    /\ mlast # None
    /\ Ancestors = 0
    /\ mlast[1].before >= 2
    /\ mlast[1].height_diff = TargetHeight - 1

\* ========================================================= population spec
\* The last call on the population: its name, the length of the score list
\* before it, and whether score() has returned on this population yet.
PLast(op, prev_len, scored) == [op |-> op, prev_len |-> prev_len, scored |-> scored]

\* random_population / Population::new and add: programs, no scores.
InitPop ==
    /\ \E k \in 0..MaxPop : \E ps \in [1..k -> Programs] :
          pop = [population |-> ps, generation |-> 0, scores |-> <<>>]
    /\ spc = "idle" /\ slots = <<>> /\ order = <<>>
    /\ plast = PLast("new", 0, FALSE)
    /\ TreeUnused
    /\ MutIdle
    /\ EvIdle
    /\ LibIdle

\* Population::add, between calls of score (both take &mut self).
Add ==
    /\ spc = "idle"
    /\ pop_n(pop) <= MaxPop
    /\ \E p \in Programs : pop' = pop_add(pop, p)
    /\ plast' = PLast("add", Len(pop.scores), plast.scored)
    /\ UNCHANGED <<spc, slots, order>>
    /\ UNCHANGED <<treeVars, mutVars, evVars, libVars>>

\* score(): collect_into truncates the score list and fans the evaluations out.
ScoreBegin ==
    /\ spc = "idle"
    /\ spc' = "scoring"
    /\ pop' = [pop EXCEPT !.scores = <<>>]
    /\ slots' = [i \in 1..pop_n(pop) |-> None]
    /\ order' = <<>>
    /\ plast' = PLast("score", Len(pop.scores), plast.scored)
    /\ UNCHANGED <<treeVars, mutVars, evVars, libVars>>

\* One evaluation completes, in any order, with a generator of its own.
ScoreEval ==
    /\ spc = "scoring"
    /\ \E i \in 1..pop_n(pop), r \in Noise :
          /\ slots[i] = None
          /\ slots' = [slots EXCEPT ![i] = Some(scoring_fn(pop.population[i], r))]
          /\ order' = Append(order, i)
    /\ UNCHANGED <<pop, spc, plast>>
    /\ UNCHANGED <<treeVars, mutVars, evVars, libVars>>

\* All evaluations are in: the score list gets its length and score() returns.
ScoreEnd ==
    /\ spc = "scoring"
    /\ \A i \in 1..pop_n(pop) : slots[i] # None
    /\ pop' = [pop EXCEPT !.scores = collect_into(@, slots, order)]
    /\ spc' = "idle"
    /\ plast' = [plast EXCEPT !.scored = TRUE]
    /\ UNCHANGED <<slots, order>>
    /\ UNCHANGED <<treeVars, mutVars, evVars, libVars>>

NextPop == Add \/ ScoreBegin \/ ScoreEval \/ ScoreEnd

SpecPop == InitPop /\ [][NextPop]_vars

\* Every score is an outcome of the scoring function on the program at its index.
IndexAligned ==
    /\ Len(pop.scores) = Len(pop.population)
    /\ \A i \in 1..Len(pop.scores) :
          \E r \in Noise : pop.scores[i] = scoring_fn(pop.population[i], r)

\* --------------------------------------------------------- C3 score()
\* C3: whatever the order in which the evaluations of score() complete, when
\* score() returns the score list is as long as the population, scores[i] is
\* the result of this call's evaluation of population[i], and nothing of the
\* previous list is left, whatever its length.
Thm_C3_ScoreIndexAligned ==
    (spc = "idle" /\ plast.op = "score") =>
        /\ IndexAligned
        /\ \A i \in 1..Len(pop.scores) : pop.scores[i] = slots[i][1]

\* score() returned on two different programs evaluated in reverse order,
\* replacing a score list of one entry.
Wit_C3_ReverseOrder ==
    /\ spc = "idle" /\ plast.op = "score"
    /\ plast.prev_len = 1
    /\ order = <<2, 1>>
    /\ pop.population[1] # pop.population[2]

\* ------------------------------------------- C4 scores stay index-aligned
\* C4 as stated: once score() has been called on a population, between calls
\* the score list is as long as the population and scores[i] corresponds to
\* population[i], after any sequence of add() and score() calls.
Orig_C4_AlignedAfterScoring ==
    (plast.scored /\ spc = "idle") => IndexAligned

\* ========================================================== evolution spec
\* The weights of the ant example with its depth limit, and weights that
\* leave operators out; one with a zero total and one with a zero height.
WeightChoices ==
    { Weights(10, 20, 70, 8), Weights(10, 0, 0, 8), Weights(0, 20, 0, 8),
      Weights(0, 0, 70, 8), Weights(0, 0, 0, 8), Weights(0, 20, 0, 0) }

\* Values of rng.next_u32() for the choice of operator, one in each band of
\* the example's weights; values of rng.next_u32() as i32 for the target
\* height (the upper half of u32 reads as the negative numbers); values for
\* the generator of the replacement, one for the Cons band and one for Nil.
OperatorDraws == {0, 10, 30}
HeightDraws == {3, -1}

GrowDraws == UNION {[1..k -> {0, 100}] : k \in 1..MaxProgDepth}

InitEvolve ==
    /\ \E k \in 0..MaxPop : \E ps \in [1..k -> Programs] : \E g \in {0, 1} :
          /\ pop = [population |-> ps, generation |-> g, scores |-> <<>>]
          /\ initial_n = k
    /\ the_weights \in WeightChoices
    /\ ret = Population_new(0, 0)
    /\ epc = "call" /\ elast = "none"
    /\ ScoreIdle
    /\ TreeUnused
    /\ MutIdle
    /\ LibIdle

\* let mut ret = Population::new(pop.n(), pop.generation + 1)
EvolveEnter ==
    /\ epc = "call"
    /\ ret' = Population_new(pop_n(pop), pop.generation + 1)
    /\ epc' = "loop"
    /\ elast' = "none"
    /\ UNCHANGED <<pop, the_weights, initial_n>>
    /\ UNCHANGED <<treeVars, mutVars, scoreVars, libVars>>

\* The first arm of pick!: a clone of the winner.
EvolveReproduce ==
    /\ epc = "loop" /\ evolve_loop_cond(ret, pop)
    /\ \E next_u32 \in OperatorDraws : evolve_pick(next_u32, the_weights) = 1
    /\ \E winner \in 1..pop_n(pop) :
          ret' = pop_add(ret, Strip(Clone(member(pop, winner), population_end(pop))))
    /\ elast' = "reproduce"
    /\ UNCHANGED <<pop, the_weights, epc, initial_n>>
    /\ UNCHANGED <<treeVars, mutVars, scoreVars, libVars>>

\* The second arm: a mutation of the winner towards a drawn height.
EvolveMutate ==
    /\ epc = "loop" /\ evolve_loop_cond(ret, pop)
    /\ \E next_u32 \in OperatorDraws : evolve_pick(next_u32, the_weights) = 2
    /\ the_weights.tree_height # 0
    /\ \E winner \in 1..pop_n(pop), h \in HeightDraws,
          r \in 0..(MaxProgDepth - 1), draws \in GrowDraws :
          \E mutation \in {mutate_tree(member(pop, winner),
                                       i32_rem(h, the_weights.tree_height),
                                       r, draws, population_end(pop))} :
             /\ mutation.ok
             /\ depth(mutation.tree[1]) <= MaxProgDepth
             /\ ret' = pop_add(ret, Strip(mutation.tree[1]))
    /\ elast' = "mutate"
    /\ UNCHANGED <<pop, the_weights, epc, initial_n>>
    /\ UNCHANGED <<treeVars, mutVars, scoreVars, libVars>>

\* The third arm on a population of two or more: both children are added.
EvolveCrossover ==
    /\ epc = "loop" /\ evolve_loop_cond(ret, pop)
    /\ \E next_u32 \in OperatorDraws : evolve_pick(next_u32, the_weights) = 3
    /\ ~(pop_n(pop) < 2)
    /\ \E one \in 1..pop_n(pop), two \in 1..pop_n(pop),
          r1 \in 0..(MaxProgDepth - 1), r2 \in 0..(MaxProgDepth - 1) :
          \E c \in {crossover_tree(member(pop, one), member(pop, two), 0, r1, r2,
                                   population_end(pop))} :
             /\ c.ok
             /\ depth(c.child1[1]) <= MaxProgDepth
             /\ depth(c.child2[1]) <= MaxProgDepth
             /\ ret' = pop_add(pop_add(ret, Strip(c.child1[1])), Strip(c.child2[1]))
    /\ elast' = "crossover"
    /\ UNCHANGED <<pop, the_weights, epc, initial_n>>
    /\ UNCHANGED <<treeVars, mutVars, scoreVars, libVars>>

\* The third arm on a population of fewer than two: continue.
EvolveCrossoverSkip ==
    /\ epc = "loop" /\ evolve_loop_cond(ret, pop)
    /\ \E next_u32 \in OperatorDraws : evolve_pick(next_u32, the_weights) = 3
    /\ pop_n(pop) < 2
    /\ elast' = "skip"
    /\ UNCHANGED <<pop, the_weights, ret, epc, initial_n>>
    /\ UNCHANGED <<treeVars, mutVars, scoreVars, libVars>>

\* The panics of an iteration: the remainder by a zero total in pick!, the
\* remainder by a zero tree_height in the second arm.
EvolvePanic ==
    /\ epc = "loop" /\ evolve_loop_cond(ret, pop)
    /\ \E next_u32 \in OperatorDraws :
          \/ evolve_pick(next_u32, the_weights) = 0
          \/ evolve_pick(next_u32, the_weights) = 2 /\ the_weights.tree_height = 0
    /\ epc' = "panicked"
    /\ UNCHANGED <<pop, the_weights, ret, elast, initial_n>>
    /\ UNCHANGED <<treeVars, mutVars, scoreVars, libVars>>

\* The loop condition fails: evolve returns ret.
EvolveReturn ==
    /\ epc = "loop" /\ ~evolve_loop_cond(ret, pop)
    /\ epc' = "returned"
    /\ UNCHANGED <<pop, the_weights, ret, elast, initial_n>>
    /\ UNCHANGED <<treeVars, mutVars, scoreVars, libVars>>

NextEvolve ==
    \/ EvolveEnter \/ EvolveReproduce \/ EvolveMutate \/ EvolveCrossover
    \/ EvolveCrossoverSkip \/ EvolvePanic \/ EvolveReturn

SpecEvolve == InitEvolve /\ [][NextEvolve]_vars

\* The loop of the example's main: pop = evolve(pop, ..), generation after
\* generation (the scoring in between leaves the programs alone).
NextGeneration ==
    /\ epc = "returned"
    /\ ret.generation < MaxGenerations
    /\ pop' = ret
    /\ ret' = Population_new(0, 0)
    /\ epc' = "call"
    /\ UNCHANGED <<the_weights, elast, initial_n>>
    /\ UNCHANGED <<treeVars, mutVars, scoreVars, libVars>>

NextGenerations == NextEvolve \/ NextGeneration

SpecGenerations == InitEvolve /\ [][NextGenerations]_vars

\* One call of evolve under fair draws: the sequential code enters the loop
\* and leaves it when its condition fails, and an arm of pick! that can be
\* drawn again and again is drawn in the end.
SpecEvolveFair ==
    /\ SpecEvolve
    /\ WF_vars(EvolveEnter) /\ WF_vars(EvolveReturn)
    /\ SF_vars(EvolveReproduce) /\ SF_vars(EvolveMutate) /\ SF_vars(EvolveCrossover)

\* ------------------------------------------------- C1 one call of evolve
\* C1: when evolve returns on an input population of size S, the returned
\* population has S <= n <= S+1 programs, n = S+1 only when the last operator
\* applied was crossover, and its generation is the input's plus one.
Thm_C1_EvolveSizeAndGeneration ==
    epc = "returned" =>
        /\ pop_n(pop) <= pop_n(ret) /\ pop_n(ret) <= pop_n(pop) + 1
        /\ (pop_n(ret) = pop_n(pop) + 1 => elast = "crossover")
        /\ ret.generation = pop.generation + 1

\* evolve returned one program over the input's size, after a crossover.
Wit_C1_OvershootByOne ==
    /\ epc = "returned"
    /\ pop_n(pop) = 2
    /\ pop_n(ret) = 3
    /\ elast = "crossover"

\* --------------------------------------------- C2 generation after generation
\* C2 as stated: with each output of evolve fed back as the next input, the
\* population at every generation boundary has between S and S+1 programs,
\* S being the size of the first generation.
Orig_C2_SizeWithinOneOfInitial ==
    /\ epc = "call" =>
          initial_n <= pop_n(pop) /\ pop_n(pop) <= initial_n + 1
    /\ epc = "returned" =>
          initial_n <= pop_n(ret) /\ pop_n(ret) <= initial_n + 1

\* ------------------------------------------------ C23 evolve terminates
\* C23 as stated: under fair draws, evolve on a non-empty population with
\* Weights of positive total (and a tree_height that is not 0) reaches the
\* target size and returns; a crossover drawn on fewer than 2 members adds
\* nothing and the loop goes on to its end.
Orig_C23_EvolveTerminates ==
    (/\ epc = "loop"
     /\ pop_n(pop) >= 1
     /\ the_weights.reproduce + the_weights.mutate + the_weights.crossover > 0
     /\ the_weights.tree_height # 0)
        ~> (epc = "returned")

\* ========================================================= score card spec
CardNames == {"a", "b"}
CardValues == {1, 2, NaN}

\* The Scores of up to k components.
ScoresUpTo(k) == UNION {[1..j -> CardNames \X CardValues] : j \in 0..k}

\* The result of the last operation on ca and cb: for a comparison, what
\* cmp, partial_cmp and == gave; for an addition, the ScoreCard it made.
CRes(op, ordering, partial, eq, card) ==
    [op |-> op, ordering |-> ordering, partial |-> partial, eq |-> eq, card |-> card]

InitCard ==
    /\ \E sa \in ScoresUpTo(MaxComponents), sb \in ScoresUpTo(MaxComponents) :
          ca = ScoreCard_new(sa) /\ cb = ScoreCard_new(sb)
    /\ cres = None
    /\ rres = None /\ gres = None /\ nw = None /\ pk = None
    /\ TreeUnused
    /\ MutIdle
    /\ PopIdle
    /\ EvIdle

\* ca.cmp(&cb), ca.partial_cmp(&cb), ca == cb
Compare ==
    /\ cres' = Some(CRes("cmp", ScoreCard_cmp(ca, cb), ScoreCard_partial_cmp(ca, cb),
                         ScoreCard_eq(ca, cb), None))
    /\ UNCHANGED <<ca, cb, rres, gres, nw, pk>>
    /\ UNCHANGED <<treeVars, mutVars, popVars, evVars>>

\* ca + cb
AddCards ==
    /\ cres' = Some(CRes("add", None, None, FALSE, Some(ScoreCard_add(ca, cb))))
    /\ UNCHANGED <<ca, cb, rres, gres, nw, pk>>
    /\ UNCHANGED <<treeVars, mutVars, popVars, evVars>>

NextCard == Compare \/ AddCards

SpecCard == InitCard /\ [][NextCard]_vars

\* --------------------------------------------------- C11 ScoreCard order
Reverse(o) == IF o = "Less" THEN "Greater" ELSE IF o = "Greater" THEN "Less" ELSE o

CardLe(x, y) == ScoreCard_cmp(x, y) \in {"Less", "Equal"}

\* ScoreCards of every total, to stand third in a chain of comparisons.
ProbeCards == {ScoreCard_new(sc) : sc \in ScoresUpTo(1)}

NamesOf(card) == {card.scores[k][1] : k \in 1..Len(card.scores)}

UniqueNames(card) == Cardinality(NamesOf(card)) = Len(card.scores)

\* The value of the component of that name, in a card of unique names.
ValueOf(card, name) ==
    card.scores[CHOOSE k \in 1..Len(card.scores) : card.scores[k][1] = name][2]

NotIn_ca(score) == score[1] \notin NamesOf(ca)

\* The sum of two Numbers, and of the values of components.
Plus(x, y) == IF x = NaN \/ y = NaN THEN NaN ELSE x + y

RECURSIVE PlusAll(_)
PlusAll(scores) ==
    IF scores = <<>> THEN 0
    ELSE Plus(PlusAll(SubSeq(scores, 1, Len(scores) - 1)), scores[Len(scores)][2])

Totals == {2 * One, 4 * One, NaN}

\* The result of the last query: its name, whether it returned (FALSE for a
\* panic), its argument, the Number it returned, the candidate indexes of a
\* tournament, the indexes of the programs it returned, the programs, and
\* the CreatureScore of champion.
RRes(op, ok, arg, value, candidates, indexes, programs, creature) ==
    [op |-> op, ok |-> ok, arg |-> arg, value |-> value, candidates |-> candidates,
     indexes |-> indexes, programs |-> programs, creature |-> creature]

\* A population of different programs after score(), with any totals.
InitRank ==
    /\ \E k \in 0..(MaxPop + 1) : \E ts \in [1..k -> Totals] : \E g \in {0, 1} :
          pop = [population |-> [i \in 1..k |-> ListOfDepth(i)],
                 generation |-> g,
                 scores |-> [i \in 1..k |-> SimpleFitness_new(<< <<"score", ts[i]>> >>)]]
    /\ rres = None
    /\ ScoreIdle
    /\ CardIdle /\ gres = None /\ nw = None /\ pk = None
    /\ TreeUnused
    /\ MutIdle
    /\ EvIdle

BestScore ==
    /\ \E r \in {best_score(pop)} :
          rres' = Some(RRes("best_score", r # None, 0, IF r = None THEN 0 ELSE r[1],
                            <<>>, <<>>, <<>>, None))
    /\ UNCHANGED <<popVars, cardVars, gres, nw, pk>>
    /\ UNCHANGED <<treeVars, mutVars, evVars>>

AvgScore ==
    /\ rres' = Some(RRes("avg_score", TRUE, 0, avg_score(pop), <<>>, <<>>, <<>>, None))
    /\ UNCHANGED <<popVars, cardVars, gres, nw, pk>>
    /\ UNCHANGED <<treeVars, mutVars, evVars>>

Champion ==
    /\ \E std \in StdOrders : \E w \in {champion(pop, std)} :
          rres' = Some(RRes("champion", w # None, 0, 0, <<>>, w,
                            IF w = None THEN <<>> ELSE <<pop.population[w[1]]>>,
                            IF w = None THEN None
                            ELSE Some([generation |-> pop.generation,
                                       program |-> pop.population[w[1]],
                                       fitness |-> pop.scores[w[1]]])))
    /\ UNCHANGED <<popVars, cardVars, gres, nw, pk>>
    /\ UNCHANGED <<treeVars, mutVars, evVars>>

BestN ==
    /\ \E n \in 0..(MaxPop + 2) : \E b \in {best_n(pop, n)} :
          rres' = Some(RRes("best_n", b # None, n, 0, <<>>,
                            IF b = None THEN <<>> ELSE b[1],
                            IF b = None THEN <<>>
                            ELSE [j \in 1..Len(b[1]) |-> pop.population[b[1][j]]],
                            None))
    /\ UNCHANGED <<popVars, cardVars, gres, nw, pk>>
    /\ UNCHANGED <<treeVars, mutVars, evVars>>

Tournament ==
    /\ \E tournament_size \in 0..(MaxPop + 1), std \in StdOrders :
          \E draws \in [1..tournament_size -> 0..MaxPop] :
             \E t \in {tournament_selection(tournament_size, pop, draws, std)} :
                rres' = Some(RRes("tournament_selection", t # None, tournament_size, 0,
                                  IF t = None THEN <<>> ELSE t[1].candidates,
                                  IF t = None THEN <<>> ELSE <<t[1].winner_i>>,
                                  IF t = None THEN <<>>
                                  ELSE <<pop.population[t[1].winner_i]>>,
                                  None))
    /\ UNCHANGED <<popVars, cardVars, gres, nw, pk>>
    /\ UNCHANGED <<treeVars, mutVars, evVars>>

NextRank == BestScore \/ AvgScore \/ Champion \/ BestN \/ Tournament

SpecRank == InitRank /\ [][NextRank]_vars

\* The last query was op and it returned.
Returned(op) == rres # None /\ rres[1].op = op /\ rres[1].ok

\* The greatest real total of the population, NaN when it has none: the
\* maximum under the order that puts NaN below every real total.
RealTotals == {t \in {totals(pop)[i] : i \in 1..Len(pop.scores)} : ~is_nan(t)}

NaNSafeMax == IF RealTotals = {} THEN NaN ELSE CHOOSE t \in RealTotals : \A u \in RealTotals : u <= t

\* ------------------------------------------------------- C12 best_score
\* C12 as stated: on a non-empty scored population best_score() returns the
\* maximum total under the NaN-safe order, wherever the NaN totals stand in
\* the score list (4.0 for 2.0, 4.0 and NaN in any order).
Orig_C12_BestScoreNaNSafe ==
    (rres # None /\ rres[1].op = "best_score" /\ pop_n(pop) >= 1) =>
        rres[1].ok /\ rres[1].value = NaNSafeMax

\* -------------------------------------------------------- C13 avg_score
IsReal(t) == ~is_nan(t)

RealTotalsSeq == SelectSeq(totals(pop), IsReal)

\* C13 as stated: on a population whose totals include NaN, avg_score()
\* leaves the NaN totals out: it returns the mean of the real totals (3.0 for
\* 2.0, 4.0 and NaN).
Orig_C13_AvgExcludesNaN ==
    (/\ rres # None /\ rres[1].op = "avg_score"
     /\ Len(RealTotalsSeq) >= 1
     /\ Len(RealTotalsSeq) < Len(pop.scores)) =>
        rres[1].value = SumSeq(RealTotalsSeq) \div Len(RealTotalsSeq)

\* ------------------------------------------------ C15 tournament_selection
\* The ScoreCard at index i is not below the one at index j, in Ord::cmp.
NotBelow(i, j) ==
    ScoreCard_cmp(pop.scores[i].score_card, pop.scores[j].score_card) # "Less"

\* C15 as stated: on a scored non-empty population and for a tournament size
\* N >= 1, tournament_selection returns a member of the population, at one
\* of the N drawn indexes, whose ScoreCard is greater than or equal to the
\* ScoreCard at every other drawn index.
Orig_C15_TournamentWinnerIsBest ==
    (/\ rres # None /\ rres[1].op = "tournament_selection"
     /\ pop_n(pop) >= 1 /\ rres[1].arg >= 1) =>
        /\ rres[1].ok
        /\ Len(rres[1].candidates) = rres[1].arg
        /\ \E j \in 1..Len(rres[1].candidates) : rres[1].candidates[j] = rres[1].indexes[1]
        /\ rres[1].programs = <<pop.population[rres[1].indexes[1]]>>
        /\ \A j \in 1..Len(rres[1].candidates) :
              NotBelow(rres[1].indexes[1], rres[1].candidates[j])

Orig_C17_ChampionAndBestN ==
    /\ (rres # None /\ rres[1].op = "champion" /\ pop_n(pop) >= 1) =>
          /\ rres[1].ok
          /\ \A i \in 1..pop_n(pop) : NotBelow(rres[1].indexes[1], i)
          /\ rres[1].creature[1].program = pop.population[rres[1].indexes[1]]
          /\ rres[1].creature[1].fitness = pop.scores[rres[1].indexes[1]]
          /\ rres[1].creature[1].generation = pop.generation
    /\ (rres # None /\ rres[1].op = "best_n" /\ rres[1].arg <= pop_n(pop)) =>
          /\ rres[1].ok
          /\ Len(rres[1].programs) = rres[1].arg
          /\ Cardinality({rres[1].indexes[j] : j \in 1..Len(rres[1].indexes)}) = rres[1].arg
          /\ \A j \in 1..Len(rres[1].indexes) :
                /\ rres[1].programs[j] = pop.population[rres[1].indexes[j]]
                /\ \A i \in 1..pop_n(pop) :
                      (\A jj \in 1..Len(rres[1].indexes) : rres[1].indexes[jj] # i)
                         => NotBelow(rres[1].indexes[j], i)

\* ================================================== population generators spec
\* The fractions 0, 1/2 and 1, and the depths asked of the generators.
Fracs == {0, One \div 2, One}
MaxDepths == 1..(MaxProgDepth + 1)

\* The totals the scoring function gives.
GenTotals == {2 * One, 4 * One}

\* The programs P::rand(NodeWeights::fixed(height), rng) can return within
\* MaxProgDepth draws.
Generated(height) ==
    {rand_List(fixed(height), d)[1] :
        d \in {dd \in GrowDraws : rand_List(fixed(height), dd) # None}}

\* The last call: its name, whether it returned (FALSE for a panic), the
\* size and depth asked, the fraction, the heights given to the generator,
\* and the population it was given.
GRes(op, ok, n, max_depth, frac, heights, input) ==
    [op |-> op, ok |-> ok, n |-> n, max_depth |-> max_depth, frac |-> frac,
     heights |-> heights, input |-> input]

InitGen ==
    /\ pop = Population_new(0, 0)
    /\ gres = None
    /\ ScoreIdle
    /\ CardIdle /\ rres = None /\ nw = None /\ pk = None
    /\ TreeUnused
    /\ MutIdle
    /\ EvIdle

\* pop = random_population(n, max_depth, rng)
RandomPopulation ==
    /\ \E n \in 0..(MaxPop + 1), max_depth \in MaxDepths :
          \E hs \in {fill_heights(n, max_depth)} :
             IF hs = None
             THEN /\ gres' = Some(GRes("random_population", FALSE, n, max_depth, 0, <<>>,
                                       Population_new(0, 0)))
                  /\ pop' = pop
             ELSE \E programs \in [1..n -> UNION {Generated(h) : h \in 1..(MaxPop + 1)}] :
                     /\ \A i \in 1..n : programs[i] \in Generated(hs[1][i])
                     /\ pop' = [population |-> programs, generation |-> 0, scores |-> <<>>]
                     /\ gres' = Some(GRes("random_population", TRUE, n, max_depth, 0,
                                          hs[1], Population_new(0, 0)))
    /\ UNCHANGED <<scoreVars, cardVars, rres, nw, pk>>
    /\ UNCHANGED <<treeVars, mutVars, evVars>>

\* pop.score(scoring_fn, rng), from its call to its return, for any scoring
\* function.
Score ==
    /\ pop_n(pop) >= 1
    /\ Len(pop.scores) = 0
    /\ \E ts \in [1..pop_n(pop) -> GenTotals] :
          pop' = [pop EXCEPT !.scores =
                     [i \in 1..pop_n(pop) |-> SimpleFitness_new(<< <<"score", ts[i]>> >>)]]
    /\ gres' = Some(GRes("score", TRUE, pop_n(pop), 0, 0, <<>>, Population_new(0, 0)))
    /\ UNCHANGED <<scoreVars, cardVars, rres, nw, pk>>
    /\ UNCHANGED <<treeVars, mutVars, evVars>>

\* pop = retain_best(frac, pop, max_depth, rng), on a scored population.
RetainBest ==
    /\ Len(pop.scores) = pop_n(pop)
    /\ pop.generation < MaxGenerations
    /\ \E frac \in Fracs, max_depth \in MaxDepths :
          \E n \in {retained(pop_n(pop), frac)} :
          \E best \in {best_n(pop, n)} :
          \E hs \in {fill_heights(pop_n(pop) - n, max_depth)} :
             IF hs = None \/ best = None
             THEN /\ gres' = Some(GRes("retain_best", FALSE, pop_n(pop), max_depth, frac,
                                       <<>>, pop))
                  /\ pop' = pop
             ELSE \E fresh \in [1..(pop_n(pop) - n) ->
                                  UNION {Generated(h) : h \in 1..(MaxPop + 1)}] :
                     /\ \A i \in 1..(pop_n(pop) - n) : fresh[i] \in Generated(hs[1][i])
                     /\ pop' = [population |->
                                   [j \in 1..n |-> pop.population[best[1][j]]] \o fresh,
                                generation |-> pop.generation + 1,
                                scores |-> <<>>]
                     /\ gres' = Some(GRes("retain_best", TRUE, pop_n(pop), max_depth, frac,
                                          hs[1], pop))
    /\ UNCHANGED <<scoreVars, cardVars, rres, nw, pk>>
    /\ UNCHANGED <<treeVars, mutVars, evVars>>

NextGen == RandomPopulation \/ Score \/ RetainBest

SpecGen == InitGen /\ [][NextGen]_vars

\* --------------------------------------------------- C18 random_population
\* C18 as stated: for every n >= 1 and max_depth >= 1, random_population
\* returns a population of exactly n programs at generation 0, and the target
\* height of every program lies between 1 and max_depth.
Orig_C18_RandomPopulationHeights ==
    (gres # None /\ gres[1].op = "random_population"
        /\ gres[1].n >= 1 /\ gres[1].max_depth >= 1) =>
        /\ gres[1].ok
        /\ pop_n(pop) = gres[1].n
        /\ pop.generation = 0
        /\ Len(gres[1].heights) = gres[1].n
        /\ \A i \in 1..Len(gres[1].heights) :
              1 <= gres[1].heights[i] /\ gres[1].heights[i] <= gres[1].max_depth

\* ------------------------------------------------------- C19 retain_best
\* The first k programs of a population are k top-ranked programs of the
\* scored population `input`, each taken once.
TopRanked(programs, k, input) ==
    \E idx \in [1..k -> 1..pop_n(input)] :
       /\ \A a, b \in 1..k : idx[a] = idx[b] => a = b
       /\ \A j \in 1..k : programs[j] = input.population[idx[j]]
       /\ \A j \in 1..k : \A m \in 1..pop_n(input) :
             (\A a \in 1..k : idx[a] # m) =>
                ScoreCard_cmp(input.scores[idx[j]].score_card,
                              input.scores[m].score_card) # "Less"

\* C19 as stated: for 0 <= frac <= 1, a scored population of any size N and
\* every max_depth >= 1, retain_best returns a population of size N, made of
\* the floor(N * frac) top-ranked programs followed by N - floor(N * frac)
\* fresh programs, at generation pop.generation + 1.
Orig_C19_RetainBestKeepsSize ==
    (gres # None /\ gres[1].op = "retain_best" /\ gres[1].max_depth >= 1) =>
        /\ gres[1].ok
        /\ pop_n(pop) = gres[1].n
        /\ pop.generation = gres[1].input.generation + 1
        /\ Len(gres[1].heights) = gres[1].n - (gres[1].n * gres[1].frac) \div One
        /\ TopRanked(pop.population, (gres[1].n * gres[1].frac) \div One, gres[1].input)

\* ========================================================= node weights spec
\* NodeWeights::fixed(target_height), then next_level() level after level, as
\* gen_child does for every child generated.  The target heights are those
\* from 1 up, and the 0 and -1 that mutate_tree asks of a deep node.  The
\* products per_level * current_level stay far below the width of i32.
InitWeights ==
    /\ \E target_height \in (-1)..MaxTargetHeight :
          nw = Some([target_height |-> target_height, weights |-> fixed(target_height)])
    /\ CardIdle /\ rres = None /\ gres = None /\ pk = None
    /\ PopIdle
    /\ TreeUnused
    /\ MutIdle
    /\ EvIdle

\* self.next_level()
NextLevel ==
    /\ nw[1].weights.current_level < MaxTargetHeight
    /\ nw' = Some([nw[1] EXCEPT !.weights = next_level(nw[1].weights)])
    /\ UNCHANGED <<cardVars, rres, gres, pk>>
    /\ UNCHANGED <<treeVars, mutVars, popVars, evVars>>

NextWeights == NextLevel

SpecWeights == InitWeights /\ [][NextWeights]_vars

PickDraws == 0..(3 * MaxWeight + 1)

\* The last choice: the Weights, the draw, and the arm run (1 reproduce,
\* 2 mutate, 3 crossover, 0 for a panic).
PRes(weights, next_u32, ran) == [weights |-> weights, next_u32 |-> next_u32, ran |-> ran]

InitPick ==
    /\ \E wr \in 0..MaxWeight, wm \in 0..MaxWeight, wc \in 0..MaxWeight :
          pk = Some(PRes(Weights(wr, wm, wc, 8), None, 0))
    /\ CardIdle /\ rres = None /\ gres = None /\ nw = None
    /\ PopIdle
    /\ TreeUnused
    /\ MutIdle
    /\ EvIdle

\* pick![rng, weights.reproduce, .., weights.mutate, .., weights.crossover, ..]
OperatorChoice ==
    /\ \E next_u32 \in PickDraws :
          pk' = Some(PRes(pk[1].weights, Some(next_u32),
                          evolve_pick(next_u32, pk[1].weights)))
    /\ UNCHANGED <<cardVars, rres, gres, nw>>
    /\ UNCHANGED <<treeVars, mutVars, popVars, evVars>>

NextPick == OperatorChoice

SpecPick == InitPick /\ [][NextPick]_vars

\* ------------------------------------------------------- C22 operator bands
\* The weights of the last choice in the order of the arms, their total, the
\* draw reduced to [0, total), and the band of the i-th arm.
ArmWeights == <<pk[1].weights.reproduce, pk[1].weights.mutate, pk[1].weights.crossover>>
ArmTotal == ArmWeights[1] + ArmWeights[2] + ArmWeights[3]
ArmDraw == pk[1].next_u32[1] % ArmTotal
BandFrom(i) == IF i = 1 THEN 0 ELSE IF i = 2 THEN ArmWeights[1]
               ELSE ArmWeights[1] + ArmWeights[2]
InBand(i) == BandFrom(i) <= ArmDraw /\ ArmDraw < BandFrom(i) + ArmWeights[i]

\* C22: for operator weights of total T > 0 and every draw r in [0, T), the
\* choice runs exactly one operator, the one whose band [sum of the earlier
\* weights, that sum + its own weight) holds r; an operator of weight 0 is
\* never run and the chain never falls through to its panic.
Thm_C22_OperatorBands ==
    (pk # None /\ pk[1].next_u32 # None /\ ArmTotal > 0) =>
        /\ pk[1].ran \in 1..3
        /\ InBand(pk[1].ran)
        /\ \A i \in 1..3 : InBand(i) => i = pk[1].ran
        /\ ArmWeights[pk[1].ran] > 0

\* The draw lands past a middle operator of weight 0: crossover runs.
Wit_C22_SkipsZeroWeight ==
    /\ pk # None /\ pk[1].next_u32 # None
    /\ ArmWeights[1] > 0 /\ ArmWeights[2] = 0 /\ ArmWeights[3] > 0
    /\ ArmDraw = ArmWeights[1]
    /\ pk[1].ran = 3

====
